---- MODULE Spec2Model ----
(***************************************************************************)
(* Intersection normalisation of the guidance extractor:                   *)
(* IntersectionNormalizer::operator() = AdjustForJoiningRoads after        *)
(* MergeSegregatedRoads, with the mergeability test CanMerge.              *)
(*                                                                         *)
(* Angles and bearings are the code's doubles, kept here as exact          *)
(* fixed-point integers: one degree is 4096 units, the inputs are whole    *)
(* degrees, and every halving the code performs stays exact (TypeOK        *)
(* checks that every stored value is even).                                *)
(*                                                                         *)
(* The graph, the name table, the road-merge detector and the intersection *)
(* generator are external collaborators: what they answer is drawn with \E *)
(* at the call that consults them.                                         *)
(*                                                                         *)
(* A second part models the destructor of SharedDataFacade, which releases *)
(* the shared memory of an outdated dataset, run concurrently by several   *)
(* facades next to queries and to the publication of new datasets.         *)
(***************************************************************************)
EXTENDS Integers, Sequences, FiniteSets, TLC

VARIABLES
    pc,           \* position in operator(): "merge", "general", "merged", "adjust", "done"
    intersection, \* the Intersection being normalised: a sequence of ConnectedRoad
    index,        \* the loop index of the running pass (0-based, as in the code)
    input,        \* the Intersection MergeSegregatedRoads was called with
    roundabout,   \* the edge ids whose edge data carries the roundabout flag
    can_last,     \* what CanMerge(node, input, 0, last) answers
    can_first,    \* what CanMerge(node, input, 0, 1) answers
    merged_first, \* "none", or which back-bearing merge was applied: "last" / "first"
    last_merge,   \* the merge the latest general-pass iteration performed, if any
    pre_adjust,   \* the Intersection AdjustForJoiningRoads was called with
    last_adjust,  \* the adjustment the latest joining-road iteration performed, if any
    call,         \* a direct call of CanMerge or combineAngles: its arguments, then its result
    facades,      \* the SharedDataFacade objects: layout_region, data_region, shared_timestamp
    fpc,          \* each facade's position: "alive", inside its destructor, or "done"
    locals,       \* each destructor's locals: what try_lock returned, the timestamp it read
    regions_mutex,         \* regions_1_mutex and regions_2_mutex: exclusive and sharable holders
    current_regions_mutex, \* the facades holding current_regions_mutex sharably
    current_timestamp,     \* the timestamp stored in the CURRENT_REGIONS block
    regions,      \* the shared memory regions that exist
    removals      \* every SharedMemory::Remove performed so far, and who else held the mutex

normalizer_vars == <<pc, intersection, index, input, roundabout, can_last, can_first,
                     merged_first, last_merge, pre_adjust, last_adjust, call>>

facade_vars == <<facades, fpc, locals, regions_mutex, current_regions_mutex,
                 current_timestamp, regions, removals>>

vars == <<pc, intersection, index, input, roundabout, can_last, can_first,
          merged_first, last_merge, pre_adjust, last_adjust, call,
          facades, fpc, locals, regions_mutex, current_regions_mutex,
          current_timestamp, regions, removals>>

\* no facade is around while an intersection is normalised
NoFacades ==
    /\ facades = <<>>
    /\ fpc = <<>>
    /\ locals = <<>>
    /\ regions_mutex = <<>>
    /\ current_regions_mutex = {}
    /\ current_timestamp = 0
    /\ regions = {}
    /\ removals = {}

----------------------------------------------------------------------------
(* Bounds and input grids *)

MaxRoads == 4

Deg(d) == d * 4096

FULL == Deg(360)

\* the angles the candidates other than the back-bearing entry are drawn from
AngleGrid == {Deg(10), Deg(100), Deg(170), Deg(190), Deg(280), Deg(350)}

\* the compass bearing of the back-bearing entry; the other roads' bearings lie
\* as far from it as their angles lie from 0
BackBearing == Deg(100)

None == [kind |-> "none"]

----------------------------------------------------------------------------
(* Angle arithmetic *)

Max(a, b) == IF a >= b THEN a ELSE b

Min(a, b) == IF a <= b THEN a ELSE b

Abs(a) == IF a < 0 THEN 0 - a ELSE a

Half(a) == a \div 2

angularDeviation(angle, from) ==
    LET deviation == Abs(angle - from)
    IN  Min(FULL - deviation, deviation)

aroundZero(first, second) ==
    (Max(first, second) - Min(first, second)) >= Deg(180)

\* mutant: the ordinary mean on both sides of the 0/360 boundary
combineAngles_mean(first, second) == Half(first + second)

combineAngles(first, second) ==
    IF ~aroundZero(first, second)
    THEN Half(first + second)
    ELSE LET offset == angularDeviation(first, second)
             new_angle == Max(first, second) + Half(offset)
         IN  IF new_angle > FULL THEN new_angle - FULL ELSE new_angle

\* mutant: the merged road is always the first one
merge_first(first, second) ==
    [first EXCEPT !.angle = combineAngles(first.angle, second.angle),
                  !.bearing = combineAngles(first.bearing, second.bearing)]

merge(first, second) ==
    LET result == IF first.entry_allowed THEN first ELSE second
    IN  [result EXCEPT !.angle = combineAngles(first.angle, second.angle),
                       !.bearing = combineAngles(first.bearing, second.bearing)]

----------------------------------------------------------------------------
(* CanMerge *)

EMPTY_NAMEID == 0

NameIds == {EMPTY_NAMEID, 1, 2}

\* first_name / second_name: the name ids GetEdgeData gives for the two roads;
\* announced: requiresNameAnnounced of the two; mergable: CanMergeRoad's answer
\* mutant: only the road-merge detector is asked
CanMerge_detector_only(size, first_name, second_name, announced, mergable) == mergable

CanMerge(size, first_name, second_name, announced, mergable) ==
    IF size <= 2 THEN FALSE
    ELSE IF first_name = EMPTY_NAMEID \/ second_name = EMPTY_NAMEID THEN FALSE
    ELSE IF announced THEN FALSE
    ELSE IF ~mergable THEN FALSE
    ELSE TRUE

\* what the collaborators may answer during one CanMerge call
Answers == [first_name : NameIds, second_name : NameIds,
            announced : BOOLEAN, mergable : BOOLEAN]

\* the answers CanMerge can give for an intersection of `size` roads
CanMergeAnswers(size) ==
    {CanMerge(size, o.first_name, o.second_name, o.announced, o.mergable) : o \in Answers}

----------------------------------------------------------------------------
(* Sequences of roads *)

\* the code's 0-based element access
At(I, i) == I[i + 1]

Erase(I, i) == [k \in 1..(Len(I) - 1) |-> IF k < i + 1 THEN I[k] ELSE I[k + 1]]

getRight(I, i) == (i + Len(I) - 1) % Len(I)

compareByAngle(a, b) == a.angle < b.angle

IsSortedByAngle(I) ==
    \A i \in 1..Len(I) : \A j \in 1..Len(I) :
        i < j => ~compareByAngle(I[j], I[i])

StrictlyAscending(I) ==
    \A k \in 1..(Len(I) - 1) : compareByAngle(I[k], I[k + 1])

\* mutant: the sequence is returned as the general pass left it
SortByAngle_skipped(I) == {I}

\* the sequences that hold road r at a place of the ascending sequence J where
\* no road before it has a greater angle and no road after it a smaller one
Insert(J, r) ==
    LET places == {q \in 1..(Len(J) + 1) :
                      /\ \A j \in 1..(q - 1) : ~compareByAngle(r, J[j])
                      /\ \A j \in q..Len(J) : ~compareByAngle(J[j], r)}
    IN  {[j \in 1..(Len(J) + 1) |->
            IF j < q THEN J[j] ELSE IF j = q THEN r ELSE J[j - 1]] : q \in places}

RECURSIVE SortedOrders(_, _)
\* every ascending ordering of the first k roads of I
SortedOrders(I, k) ==
    IF k = 0 THEN {<<>>}
    ELSE UNION {Insert(J, I[k]) : J \in SortedOrders(I, k - 1)}

\* std::sort orders by compareByAngle and leaves the order of equal elements
\* open: every ordering it may produce
SortByAngle(I) == SortedOrders(I, Len(I))

----------------------------------------------------------------------------
(* MergeSegregatedRoads *)

is_connected_to_roundabout(I) == \E k \in 1..Len(I) : I[k].eid \in roundabout

\* mutant: the merged back-bearing entry keeps its combined angle
MergeWithLast_combined(I) ==
    LET n == Len(I)
        correction_factor == Half(FULL - I[n].angle)
    IN  [k \in 1..(n - 1) |->
            IF k = 1 THEN merge(I[1], I[n])
            ELSE [I[k] EXCEPT !.angle = @ + correction_factor]]

\* the merge of entry 0 with the last entry (moving `a` to the left)
MergeWithLast(I) ==
    LET n == Len(I)
        correction_factor == Half(FULL - I[n].angle)
        merged == [merge(I[1], I[n]) EXCEPT !.angle = 0]
    IN  [k \in 1..(n - 1) |->
            IF k = 1 THEN merged
            ELSE [I[k] EXCEPT !.angle = @ + correction_factor]]

\* the merge of entry 0 with entry 1 (moving `a` to the right)
MergeWithFirst(I) ==
    LET n == Len(I)
        correction_factor == Half(I[2].angle)
        merged == [merge(I[1], I[2]) EXCEPT !.angle = 0]
    IN  [k \in 1..(n - 1) |->
            IF k = 1 THEN merged
            ELSE [I[k + 1] EXCEPT !.angle = @ - correction_factor]]

\* mutant: the merged u-turn keeps its entry flag
DisableEntry_skipped(I, merged, connected) == I

DisableEntry(I, merged, connected) ==
    IF merged /\ connected
    THEN [I EXCEPT ![1].entry_allowed = FALSE]
    ELSE I

\* mutant: the merge with entry 1 is tried before the merge with the last entry
BackBearingMerge_first_preferred(I, first_answer, second_answer) ==
    LET merged == IF second_answer THEN MergeWithFirst(I)
                  ELSE IF first_answer THEN MergeWithLast(I)
                  ELSE I
    IN  DisableEntry(merged, first_answer \/ second_answer,
                     is_connected_to_roundabout(I))

BackBearingMerge(I, first_answer, second_answer) ==
    LET merged == IF first_answer THEN MergeWithLast(I)
                  ELSE IF second_answer THEN MergeWithFirst(I)
                  ELSE I
    IN  DisableEntry(merged, first_answer \/ second_answer,
                     is_connected_to_roundabout(I))

\* one general-pass merge of `index` into its right neighbour
GeneralMerge(I, i) ==
    Erase([I EXCEPT ![getRight(I, i) + 1] = merge(At(I, getRight(I, i)), At(I, i))], i)

\* lines 128-129: nothing to merge
MergeTrivial ==
    /\ pc = "merge"
    /\ Len(intersection) <= 1
    /\ pc' = "merged"
    /\ UNCHANGED facade_vars
    /\ UNCHANGED <<intersection, index, input, roundabout, can_last, can_first,
                   merged_first, last_merge, pre_adjust, last_adjust, call>>

\* lines 131-212: the roundabout test and the back-bearing merge
MergeBackBearing ==
    /\ pc = "merge"
    /\ Len(intersection) > 1
    /\ \E first_answer \in CanMergeAnswers(Len(intersection)),
          second_answer \in CanMergeAnswers(Len(intersection)) :
            /\ can_last' = first_answer
            /\ can_first' = second_answer
            /\ merged_first' = IF first_answer THEN "last"
                               ELSE IF second_answer THEN "first"
                               ELSE "none"
            /\ intersection' = BackBearingMerge(intersection, first_answer, second_answer)
    /\ index' = 2
    /\ pc' = "general"
    /\ UNCHANGED facade_vars
    /\ UNCHANGED <<input, roundabout, last_merge, pre_adjust, last_adjust, call>>

\* lines 216-225: one iteration of the general pass
GeneralStep ==
    /\ pc = "general"
    /\ index < Len(intersection)
    /\ \E answer \in CanMergeAnswers(Len(intersection)) :
        IF answer
        THEN /\ intersection' = GeneralMerge(intersection, index)
             /\ last_merge' = [kind |-> "merge",
                               first |-> At(intersection, getRight(intersection, index)),
                               second |-> At(intersection, index),
                               at |-> getRight(intersection, index)]
             /\ index' = index
        ELSE /\ intersection' = intersection
             /\ last_merge' = None
             /\ index' = index + 1
    /\ UNCHANGED facade_vars
    /\ UNCHANGED <<pc, input, roundabout, can_last, can_first, merged_first,
                   pre_adjust, last_adjust, call>>

\* lines 227-230: the loop is over; sort and return
MergeReturn ==
    /\ pc = "general"
    /\ index >= Len(intersection)
    /\ \E J \in SortByAngle(intersection) : intersection' = J
    /\ last_merge' = None
    /\ pc' = "merged"
    /\ UNCHANGED facade_vars
    /\ UNCHANGED <<index, input, roundabout, can_last, can_first, merged_first,
                   pre_adjust, last_adjust, call>>

----------------------------------------------------------------------------
(* AdjustForJoiningRoads *)

MAXIMAL_ALLOWED_NO_TURN_DEVIATION == Deg(3)

\* mutant: the offset is applied without wrapping
adjustAngle_unwrapped(angle, offset) == angle + offset

adjustAngle(angle, offset) ==
    LET shifted == angle + offset
    IN  IF shifted > FULL THEN shifted - FULL
        ELSE IF shifted < 0 THEN shifted + FULL
        ELSE shifted

get_offset(lhs_angle, rhs_angle) == Half(angularDeviation(lhs_angle, rhs_angle))

\* mutant: the offset is never limited
get_corrected_offset_unlimited(offset, road_angle, next_road_angle) == offset

get_corrected_offset(offset, road_angle, next_road_angle) ==
    LET offset_limit == angularDeviation(road_angle, next_road_angle)
    IN  IF offset + MAXIMAL_ALLOWED_NO_TURN_DEVIATION > offset_limit
        THEN Half(offset_limit)
        ELSE offset

\* the angles of the intersections the generator may report one hop ahead
NextIntersections ==
    {<<>>, <<0>>, <<0, Deg(20)>>,
     <<0, Deg(20), Deg(180)>>, <<0, Deg(180), Deg(340)>>}

\* lines 264-342: what one iteration does to the road at `i`, given what the
\* collaborators answer: next = intersection_generator(node, road.eid),
\* near = haversineDistance(...) <= 30, range_size = GetAdjacentEdgeRange(..).size(),
\* right = CanMerge(next node, next, 0, 1), left = CanMerge(next node, next, 0, last)
JoiningAdjustment(I, i, next, near, range_size, right, left) ==
    LET road == At(I, i)
    IN  IF Len(next) <= 1 THEN None
        ELSE IF ~near THEN None
        ELSE IF range_size <= 1 THEN None
        ELSE IF right
        THEN LET offset == get_offset(next[1], next[2])
                 neighbour == At(I, (i + 1) % Len(I))
             IN  [kind |-> "add", at |-> i, before |-> road.angle,
                  neighbour |-> neighbour.angle,
                  offset |-> get_corrected_offset(offset, road.angle, neighbour.angle)]
        ELSE IF left
        THEN LET offset == get_offset(next[1], next[Len(next)])
                 neighbour == At(I, i - 1)
             IN  [kind |-> "sub", at |-> i, before |-> road.angle,
                  neighbour |-> neighbour.angle,
                  offset |-> get_corrected_offset(offset, road.angle, neighbour.angle)]
        ELSE None

\* every adjustment the collaborators' answers can lead to
JoiningAdjustments(I, i) ==
    UNION {{JoiningAdjustment(I, i, next, near, range_size, right, left) :
                near \in BOOLEAN, range_size \in {1, 2},
                right \in CanMergeAnswers(Len(next)),
                left \in CanMergeAnswers(Len(next))} :
           next \in NextIntersections}

\* mutant: the offset is applied in the opposite direction
ApplyAdjustment_reversed(I, i, adj) ==
    IF adj.kind = "add"
    THEN [I EXCEPT ![i + 1].angle = adjustAngle(@, 0 - adj.offset),
                   ![i + 1].bearing = adjustAngle(@, 0 - adj.offset)]
    ELSE IF adj.kind = "sub"
    THEN [I EXCEPT ![i + 1].angle = adjustAngle(@, adj.offset),
                   ![i + 1].bearing = adjustAngle(@, adj.offset)]
    ELSE I

ApplyAdjustment(I, i, adj) ==
    IF adj.kind = "add"
    THEN [I EXCEPT ![i + 1].angle = adjustAngle(@, adj.offset),
                   ![i + 1].bearing = adjustAngle(@, adj.offset)]
    ELSE IF adj.kind = "sub"
    THEN [I EXCEPT ![i + 1].angle = adjustAngle(@, 0 - adj.offset),
                   ![i + 1].bearing = adjustAngle(@, 0 - adj.offset)]
    ELSE I

\* lines 253-262: entry; nothing to do for dead ends
AdjustStart ==
    /\ pc = "merged"
    /\ pre_adjust' = intersection
    /\ IF Len(intersection) <= 1
       THEN pc' = "done" /\ index' = 0
       ELSE pc' = "adjust" /\ index' = 1
    \* MergeSegregatedRoads has returned: its argument and locals are gone
    /\ input' = <<>>
    /\ can_last' = FALSE
    /\ can_first' = FALSE
    /\ merged_first' = "none"
    /\ UNCHANGED facade_vars
    /\ UNCHANGED <<intersection, roundabout, last_merge, last_adjust, call>>

\* lines 262-343: one iteration of the loop
AdjustStep ==
    /\ pc = "adjust"
    /\ index < Len(intersection)
    /\ \E adj \in JoiningAdjustments(intersection, index) :
        /\ intersection' = ApplyAdjustment(intersection, index, adj)
        /\ last_adjust' = adj
    /\ index' = index + 1
    /\ UNCHANGED facade_vars
    /\ UNCHANGED <<pc, input, roundabout, can_last, can_first, merged_first,
                   last_merge, pre_adjust, call>>

\* line 344
AdjustReturn ==
    /\ pc = "adjust"
    /\ index >= Len(intersection)
    /\ pc' = "done"
    /\ last_adjust' = None
    /\ UNCHANGED facade_vars
    /\ UNCHANGED <<intersection, index, input, roundabout, can_last, can_first,
                   merged_first, last_merge, pre_adjust, call>>

----------------------------------------------------------------------------
(* Inputs *)

\* ascending angle lists of n roads: entry 0 is the back-bearing entry at 0
AngleLists(n) ==
    {a \in [1..n -> AngleGrid \cup {0}] :
        /\ \A k \in 1..n : (a[k] = 0) <=> (k = 1)
        /\ \A k \in 1..(n - 1) : a[k] <= a[k + 1]}

Roads(a, allowed) ==
    [k \in 1..Len(a) |-> [eid |-> k,
                          angle |-> a[k],
                          bearing |-> (BackBearing + a[k]) % FULL,
                          entry_allowed |-> allowed[k]]]

InitWith(I, flagged) ==
    /\ pc = "merge"
    /\ intersection = I
    /\ input = I
    /\ roundabout = flagged
    /\ index = 0
    /\ can_last = FALSE
    /\ can_first = FALSE
    /\ merged_first = "none"
    /\ last_merge = None
    /\ pre_adjust = <<>>
    /\ last_adjust = None

\* MergeSegregatedRoads on its own, over every entry_allowed pattern
InitMerge ==
    \E n \in 0..MaxRoads : \E a \in AngleLists(n) :
    \E allowed \in [1..n -> BOOLEAN] :
    \E flagged \in {{}, {n}} :
        InitWith(Roads(a, allowed), flagged) /\ call = None /\ NoFacades

\* operator(): both passes, away from roundabouts; the u-turn may or may not be
\* allowed
Init ==
    \E n \in 0..MaxRoads : \E a \in AngleLists(n) :
    \E allowed \in {[k \in 1..n |-> TRUE], [k \in 1..n |-> k # 1]} :
        InitWith(Roads(a, allowed), {}) /\ call = None /\ NoFacades

Next ==
    \/ MergeTrivial \/ MergeBackBearing \/ GeneralStep \/ MergeReturn
    \/ AdjustStart \/ AdjustStep \/ AdjustReturn

Spec == Init /\ [][Next]_vars

----------------------------------------------------------------------------
(* MergeSegregatedRoads on its own *)

NextMerge == MergeTrivial \/ MergeBackBearing \/ GeneralStep \/ MergeReturn

SpecMerge == InitMerge /\ [][NextMerge]_vars

----------------------------------------------------------------------------
(* CanMerge and combineAngles called directly *)

\* the arguments combineAngles is called with: every ten degrees of [0,360)
CombineGrid == {Deg(10 * d) : d \in 0..35}

\* the index pairs the two passes call CanMerge with
IndexPairs(n) ==
    {<<0, n - 1>>, <<0, 1>>} \cup {<<i, i - 1>> : i \in 2..(n - 1)}

CanMergeCalls(n) ==
    {[kind |-> "CanMerge", first_index |-> ij[1], second_index |-> ij[2],
      first_name |-> o.first_name, second_name |-> o.second_name,
      announced |-> o.announced, mergable |-> o.mergable] :
        ij \in IndexPairs(n), o \in Answers}

InitFunctions ==
    \/ \E n \in 2..MaxRoads : \E a \in AngleLists(n) : \E c \in CanMergeCalls(n) :
            /\ InitWith(Roads(a, [k \in 1..n |-> TRUE]), {})
            /\ call = c
            /\ NoFacades
    \/ \E first \in CombineGrid, second \in CombineGrid :
            /\ InitWith(<<>>, {})
            /\ call = [kind |-> "combineAngles", first |-> first, second |-> second]
            /\ NoFacades

\* lines 38-65
CallCanMerge ==
    /\ call.kind = "CanMerge"
    /\ call' = [kind |-> "CanMerge returned", args |-> call,
                result |-> CanMerge(Len(intersection), call.first_name, call.second_name,
                                    call.announced, call.mergable)]
    /\ UNCHANGED facade_vars
    /\ UNCHANGED <<pc, intersection, index, input, roundabout, can_last, can_first,
                   merged_first, last_merge, pre_adjust, last_adjust>>

\* lines 105-116
CallCombineAngles ==
    /\ call.kind = "combineAngles"
    /\ call' = [kind |-> "combineAngles returned", args |-> call,
                result |-> combineAngles(call.first, call.second)]
    /\ UNCHANGED facade_vars
    /\ UNCHANGED <<pc, intersection, index, input, roundabout, can_last, can_first,
                   merged_first, last_merge, pre_adjust, last_adjust>>

NextFunctions == CallCanMerge \/ CallCombineAngles

SpecFunctions == InitFunctions /\ [][NextFunctions]_vars

----------------------------------------------------------------------------
(* SharedDataFacade: release of the shared memory on destruction *)

MaxFacades == 2

MaxTimestamp == 2

MaxQueries == 1

Facades == 1..MaxFacades

\* the other users of a regions mutex: queries that hold it sharably
Queries == 1..MaxQueries

DataRegions == {"DATA_1", "DATA_2"}

\* the layout block stored together with a data block
LayoutOf(data) == IF data = "DATA_1" THEN "LAYOUT_1" ELSE "LAYOUT_2"

\* lines 35-36: regions_1_mutex for DATA_1, regions_2_mutex otherwise
MutexOf(data_region) == IF data_region = "DATA_1" THEN 1 ELSE 2

\* the regions mutex that guards a block of shared memory
RegionMutex(region) == IF region \in {"DATA_1", "LAYOUT_1"} THEN 1 ELSE 2

Unlocked == [exclusive |-> {}, sharable |-> {}]

\* mutant: try_lock succeeds while queries hold the mutex sharably
CanLockExclusive_unshared(mutex) == mutex.exclusive = {}

\* named_sharable_mutex::try_lock succeeds when nobody holds the mutex
CanLockExclusive(mutex) == mutex.exclusive = {} /\ mutex.sharable = {}

\* named_sharable_mutex::lock_sharable succeeds when nobody holds it exclusively
CanLockSharable(mutex) == mutex.exclusive = {}

\* everybody but facade f who holds the mutex of `region`
OtherHolders(region, f) ==
    LET mutex == regions_mutex[RegionMutex(region)]
    IN  [exclusive |-> mutex.exclusive \ {f}, sharable |-> mutex.sharable]

\* storage::SharedMemory::Remove(region), by facade f
Remove(region, f) ==
    /\ regions' = regions \ {region}
    /\ removals' = removals \cup
           {[by |-> f, region |-> region, others |-> OtherHolders(region, f)]}

\* lines 63-82: facades constructed on existing regions with a timestamp that
\* was current at some time
InitFacade ==
    /\ InitWith(<<>>, {})
    /\ call = None
    /\ current_timestamp \in 0..(MaxTimestamp - 1)
    /\ facades \in [Facades -> {[layout_region |-> LayoutOf(data),
                                 data_region |-> data,
                                 shared_timestamp |-> timestamp] :
                                    data \in DataRegions,
                                    timestamp \in 0..(MaxTimestamp - 1)}]
    /\ \A f \in Facades : facades[f].shared_timestamp <= current_timestamp
    /\ fpc = [f \in Facades |-> "alive"]
    /\ locals = [f \in Facades |-> [owns |-> FALSE, timestamp |-> -1, locked |-> FALSE]]
    /\ regions_mutex = [m \in {1, 2} |-> Unlocked]
    /\ current_regions_mutex = {}
    /\ regions = DataRegions \cup {LayoutOf(data) : data \in DataRegions}
    /\ removals = {}

\* lines 34-40: the destructor starts; exclusive_lock.try_lock()
TryLock(f) ==
    /\ fpc[f] = "alive"
    /\ LET m == MutexOf(facades[f].data_region)
       IN  IF CanLockExclusive(regions_mutex[m])
           THEN /\ regions_mutex' = [regions_mutex EXCEPT ![m].exclusive = {f}]
                /\ locals' = [locals EXCEPT ![f].owns = TRUE]
                /\ fpc' = [fpc EXCEPT ![f] = "lock_current"]
           ELSE /\ regions_mutex' = regions_mutex
                /\ locals' = [locals EXCEPT ![f].owns = FALSE]
                /\ fpc' = [fpc EXCEPT ![f] = "done"]
    /\ UNCHANGED <<facades, current_regions_mutex, current_timestamp, regions, removals>>
    /\ UNCHANGED normalizer_vars

\* lines 43-44: sharable_lock lock(current_regions_mutex)
LockCurrentRegions(f) ==
    /\ fpc[f] = "lock_current"
    /\ current_regions_mutex' = current_regions_mutex \cup {f}
    /\ fpc' = [fpc EXCEPT ![f] = "read"]
    /\ UNCHANGED <<facades, locals, regions_mutex, current_timestamp, regions, removals>>
    /\ UNCHANGED normalizer_vars

\* lines 46-55: read the current timestamp and compare it with the facade's
ReadTimestamp(f) ==
    /\ fpc[f] = "read"
    /\ locals' = [locals EXCEPT ![f].timestamp = current_timestamp,
                                ![f].locked = f \in current_regions_mutex]
    /\ fpc' = [fpc EXCEPT ![f] = IF current_timestamp = facades[f].shared_timestamp
                                 THEN "unlock_current"
                                 ELSE "remove_data"]
    /\ UNCHANGED <<facades, regions_mutex, current_regions_mutex, current_timestamp,
                   regions, removals>>
    /\ UNCHANGED normalizer_vars

\* line 57
RemoveData(f) ==
    /\ fpc[f] = "remove_data"
    /\ Remove(facades[f].data_region, f)
    /\ fpc' = [fpc EXCEPT ![f] = "remove_layout"]
    /\ UNCHANGED <<facades, locals, regions_mutex, current_regions_mutex, current_timestamp>>
    /\ UNCHANGED normalizer_vars

\* line 58
RemoveLayout(f) ==
    /\ fpc[f] = "remove_layout"
    /\ Remove(facades[f].layout_region, f)
    /\ fpc' = [fpc EXCEPT ![f] = "unlock_current"]
    /\ UNCHANGED <<facades, locals, regions_mutex, current_regions_mutex, current_timestamp>>
    /\ UNCHANGED normalizer_vars

\* line 60: the sharable lock goes out of scope
UnlockCurrentRegions(f) ==
    /\ fpc[f] = "unlock_current"
    /\ current_regions_mutex' = current_regions_mutex \ {f}
    /\ fpc' = [fpc EXCEPT ![f] = "unlock"]
    /\ UNCHANGED <<facades, locals, regions_mutex, current_timestamp, regions, removals>>
    /\ UNCHANGED normalizer_vars

\* line 61: the exclusive lock goes out of scope
Unlock(f) ==
    /\ fpc[f] = "unlock"
    /\ regions_mutex' = [regions_mutex EXCEPT
                            ![MutexOf(facades[f].data_region)].exclusive = @ \ {f}]
    /\ fpc' = [fpc EXCEPT ![f] = "done"]
    /\ UNCHANGED <<facades, locals, current_regions_mutex, current_timestamp, regions,
                   removals>>
    /\ UNCHANGED normalizer_vars

\* a query starts on the data of mutex m: it takes the mutex sharably
QueryLock(q, m) ==
    /\ \A k \in {1, 2} : q \notin regions_mutex[k].sharable
    /\ CanLockSharable(regions_mutex[m])
    /\ regions_mutex' = [regions_mutex EXCEPT ![m].sharable = @ \cup {q}]
    /\ UNCHANGED <<facades, fpc, locals, current_regions_mutex, current_timestamp,
                   regions, removals>>
    /\ UNCHANGED normalizer_vars

\* the query is over
QueryUnlock(q, m) ==
    /\ q \in regions_mutex[m].sharable
    /\ regions_mutex' = [regions_mutex EXCEPT ![m].sharable = @ \ {q}]
    /\ UNCHANGED <<facades, fpc, locals, current_regions_mutex, current_timestamp,
                   regions, removals>>
    /\ UNCHANGED normalizer_vars

\* a new dataset is published: the timestamp changes under the exclusive lock
\* of current_regions_mutex, which no sharable holder allows
Publish ==
    /\ current_regions_mutex = {}
    /\ current_timestamp < MaxTimestamp
    /\ current_timestamp' = current_timestamp + 1
    /\ UNCHANGED <<facades, fpc, locals, regions_mutex, current_regions_mutex,
                   regions, removals>>
    /\ UNCHANGED normalizer_vars

NextFacade ==
    \/ \E f \in Facades : TryLock(f)
    \/ \E f \in Facades : LockCurrentRegions(f)
    \/ \E f \in Facades : ReadTimestamp(f)
    \/ \E f \in Facades : RemoveData(f)
    \/ \E f \in Facades : RemoveLayout(f)
    \/ \E f \in Facades : UnlockCurrentRegions(f)
    \/ \E f \in Facades : Unlock(f)
    \/ \E q \in Queries, m \in {1, 2} : QueryLock(q, m)
    \/ \E q \in Queries, m \in {1, 2} : QueryUnlock(q, m)
    \/ Publish

SpecFacade == InitFacade /\ [][NextFacade]_vars

----------------------------------------------------------------------------
(* Sanity of the model: the fixed-point arithmetic never rounds *)

Units(I) == {I[k].angle : k \in 1..Len(I)} \cup {I[k].bearing : k \in 1..Len(I)}

TypeOK ==
    /\ pc \in {"merge", "general", "merged", "adjust", "done"}
    /\ index \in 0..MaxRoads
    /\ Len(intersection) <= MaxRoads
    /\ \A u \in Units(intersection) : u % 64 = 0
    /\ \A k \in 1..Len(intersection) : intersection[k].eid \in 1..MaxRoads

----------------------------------------------------------------------------
(* Claims *)

Normalized == pc = "done"

\* a pass changed this road's angle or bearing
Adjusted(k) ==
    \/ intersection[k].angle # pre_adjust[k].angle
    \/ intersection[k].bearing # pre_adjust[k].bearing

InHalfOpenRange(v) == 0 <= v /\ v < FULL

InClosedRange(v) == 0 <= v /\ v <= FULL

\* C1, as stated: every road in the result of Normalize has 0 <= angle < 360 and
\* 0 <= bearing < 360.
C1_AngleInvariantHalfOpen ==
    Normalized =>
        \A k \in 1..Len(intersection) :
            /\ InHalfOpenRange(intersection[k].angle)
            /\ InHalfOpenRange(intersection[k].bearing)

\* C1, amended: every road in the result of Normalize has 0 <= angle <= 360 and
\* 0 <= bearing <= 360; the value 360 itself occurs, since combineAngles and
\* adjustAngle only wrap values strictly greater than 360.
C1_AngleInvariantClosed ==
    Normalized =>
        \A k \in 1..Len(intersection) :
            /\ InClosedRange(intersection[k].angle)
            /\ InClosedRange(intersection[k].bearing)

\* C1, witness: a result of both passes (a merge has shortened the intersection,
\* a joining-road adjustment has moved a road) that holds the value 360 itself.
C1_Witness ==
    /\ Normalized
    /\ Len(intersection) >= 2
    /\ Len(intersection) < MaxRoads
    /\ intersection[1].eid # 1
    /\ \E k \in 1..Len(intersection) :
        /\ Adjusted(k)
        /\ intersection[k].bearing = FULL

\* C2: whenever MergeSegregatedRoads or the full Normalize has returned a
\* non-empty intersection, its entry at index 0 has angle 0 (every input has
\* angle 0 at index 0).
C2_BackBearingAngleZero ==
    (pc \in {"merged", "done"} /\ Len(intersection) >= 1) =>
        intersection[1].angle = 0

\* C2, witness: a result of Normalize whose entry 0 came out of a back-bearing
\* merge (it carries the edge of the road it was merged with) and whose other
\* roads were moved by joining-road adjustments.
C2_Witness ==
    /\ Normalized
    /\ Len(intersection) >= 3
    /\ intersection[1].eid # 1
    /\ \A k \in 2..Len(intersection) : Adjusted(k)
    /\ intersection[1].angle = 0

\* C3, as stated: a strictly ascending input comes back from
\* MergeSegregatedRoads strictly ascending by angle.
C3_StrictlyAscending ==
    (pc = "merged" /\ StrictlyAscending(input)) => StrictlyAscending(intersection)

\* C3, amended: a strictly ascending input comes back from MergeSegregatedRoads
\* ascending by angle: no candidate precedes one with a smaller angle, but two
\* candidates may share an angle.
C3_Ascending ==
    (pc = "merged" /\ StrictlyAscending(input)) => IsSortedByAngle(intersection)

\* C3, witness: a strictly ascending input returned, after a general-pass
\* merge, with two candidates at the same angle.
C3_Witness ==
    /\ pc = "merged"
    /\ StrictlyAscending(input)
    /\ Len(intersection) < Len(input)
    /\ \E k \in 1..(Len(intersection) - 1) :
        intersection[k].angle = intersection[k + 1].angle

\* the angle the road at `at` must not pass when it is moved up: its circular
\* successor's, which for the last road is entry 0 one full turn on
UpperNeighbour(I, at) ==
    IF at + 1 = Len(I) THEN FULL + At(I, 0).angle ELSE At(I, at + 1).angle

\* the road moved by the latest iteration stays between its own former angle
\* and the angle of its neighbour in the offset direction, the neighbours
\* being those of intersection N
WithinNeighbour(N) ==
    LET now == At(intersection, last_adjust.at).angle
    IN  /\ last_adjust.kind = "add" =>
            /\ last_adjust.before <= now
            /\ now <= UpperNeighbour(N, last_adjust.at)
        /\ last_adjust.kind = "sub" =>
            /\ now <= last_adjust.before
            /\ At(N, last_adjust.at - 1).angle <= now

\* C4, as stated: an adjusted candidate never passes the angle its neighbour in
\* the offset direction had before the pass.
C4_ClampAgainstOriginal == WithinNeighbour(pre_adjust)

\* C4, amended: an adjusted candidate never passes the angle its neighbour in
\* the offset direction has when the candidate is adjusted: for index+1 that
\* is its angle before the pass, for index-1 it is the angle the pass has
\* already given it.
C4_ClampAgainstCurrent == WithinNeighbour(intersection)

\* C4, witness: a candidate moved down by a limited offset next to a neighbour
\* that the pass had already moved.
C4_Witness ==
    /\ last_adjust.kind = "sub"
    /\ last_adjust.offset > 0
    /\ last_adjust.offset = Half(angularDeviation(last_adjust.before, last_adjust.neighbour))
    /\ Adjusted(last_adjust.at)
    /\ last_adjust.at >= 2

\* C5: CanMerge returns false whenever the intersection has degree <= 2, or
\* either road has the empty name id, or the two names require announcement,
\* whatever the road-merge detector answers; it returns true exactly when all
\* four rules pass; and the intersection it was given is left as it was.
C5_CanMergeVetoes ==
    call.kind = "CanMerge returned" =>
        LET degree_ok == Len(intersection) > 2
            named == /\ call.args.first_name # EMPTY_NAMEID
                     /\ call.args.second_name # EMPTY_NAMEID
            same_name == ~call.args.announced
        IN  /\ (~degree_ok \/ ~named \/ ~same_name) => call.result = FALSE
            /\ call.result = TRUE <=>
                   (degree_ok /\ named /\ same_name /\ call.args.mergable)
            /\ intersection = input

\* C5, witness: CanMerge has refused two roads, one of them unnamed, at an
\* intersection of degree > 2 although the detector would merge them.
C5_Witness ==
    /\ call.kind = "CanMerge returned"
    /\ Len(intersection) > 2
    /\ call.args.first_name = EMPTY_NAMEID
    /\ ~call.args.announced
    /\ call.args.mergable
    /\ call.result = FALSE

\* C6: when a candidate of the input carries the roundabout flag and a
\* back-bearing merge fires, entry 0 of the intersection MergeSegregatedRoads
\* returns has entry_allowed = false; when no back-bearing merge fires, entry
\* 0's entry_allowed is the input's.
C6_RoundaboutMergeDisablesEntry ==
    (pc = "merged" /\ Len(input) >= 1) =>
        /\ (is_connected_to_roundabout(input) /\ merged_first # "none") =>
               ~intersection[1].entry_allowed
        /\ merged_first = "none" =>
               intersection[1].entry_allowed = input[1].entry_allowed

\* C6, witness: at a roundabout, entry 0 and the last entry both allowed entry,
\* were merged, and the returned entry 0 does not allow it.
C6_Witness ==
    /\ pc = "merged"
    /\ is_connected_to_roundabout(input)
    /\ merged_first = "last"
    /\ input[1].entry_allowed
    /\ input[Len(input)].entry_allowed
    /\ ~intersection[1].entry_allowed

\* C7, as stated: combineAngles is the mean when |a - b| < 180, and otherwise
\* max(a,b) + angularDeviation(a,b)/2 taken modulo 360; the result lies in
\* [0,360), and combineAngles(350, 10) is 0.
C7_CombineAnglesHalfOpen ==
    call.kind = "combineAngles returned" =>
        LET a == call.args.first
            b == call.args.second
        IN  /\ Abs(a - b) < Deg(180) => call.result = Half(a + b)
            /\ Abs(a - b) >= Deg(180) =>
                   call.result = (Max(a, b) + Half(angularDeviation(a, b))) % FULL
            /\ InHalfOpenRange(call.result)
            /\ (a = Deg(350) /\ b = Deg(10)) => call.result = 0

\* C7, amended: combineAngles is the mean when |a - b| < 180; otherwise it is
\* the value in (0,360] that equals max(a,b) + angularDeviation(a,b)/2 modulo
\* 360, so the result lies in [0,360] and combineAngles(350, 10) is 360, the
\* direction of 0, not 180.
C7_CombineAnglesClosed ==
    call.kind = "combineAngles returned" =>
        LET a == call.args.first
            b == call.args.second
        IN  /\ Abs(a - b) < Deg(180) => call.result = Half(a + b)
            /\ Abs(a - b) >= Deg(180) =>
                   /\ call.result % FULL =
                          (Max(a, b) + Half(angularDeviation(a, b))) % FULL
                   /\ 0 < call.result
                   /\ call.result <= FULL
            /\ InClosedRange(call.result)
            /\ (a = Deg(350) /\ b = Deg(10)) => call.result = FULL

\* C7, witness: combineAngles(350, 10) has returned 360.
C7_Witness ==
    /\ call.kind = "combineAngles returned"
    /\ call.args.first = Deg(350)
    /\ call.args.second = Deg(10)
    /\ call.result = FULL

\* C8: a general-pass merge leaves, in the place of the right neighbour, a
\* candidate with the edge and entry flag of an input that allows entry
\* whenever one of the two does, and with angle and bearing combineAngles of
\* the two inputs'; candidates at 170 and 190 become one at 180.
C8_MergeSemantics ==
    last_merge.kind = "merge" =>
        LET first == last_merge.first
            second == last_merge.second
            merged == At(intersection, last_merge.at)
        IN  /\ \E kept \in {first, second} :
                /\ merged.eid = kept.eid
                /\ merged.entry_allowed = kept.entry_allowed
            /\ (first.entry_allowed \/ second.entry_allowed) => merged.entry_allowed
            /\ merged.angle = combineAngles(first.angle, second.angle)
            /\ merged.bearing = combineAngles(first.bearing, second.bearing)
            /\ {first.angle, second.angle} = {Deg(170), Deg(190)} =>
                   merged.angle = Deg(180)

\* C8, witness: candidates at 170 (no entry) and 190 (entry allowed) were
\* merged into one at 180 that carries the second one's edge.
C8_Witness ==
    /\ last_merge.kind = "merge"
    /\ last_merge.first.angle = Deg(170)
    /\ last_merge.second.angle = Deg(190)
    /\ ~last_merge.first.entry_allowed
    /\ last_merge.second.entry_allowed
    /\ At(intersection, last_merge.at).eid = last_merge.second.eid
    /\ At(intersection, last_merge.at).angle = Deg(180)

\* what the back-bearing step and the general pass may do in one step
BackBearingFirst ==
    LET n == Len(intersection)
    IN  /\ pc = "merge" => last_merge = None
        /\ pc # "merge" => pc' # "merge"
        /\ (pc = "merge" /\ pc' = "general") =>
            /\ index' = 2
            /\ last_merge' = None
            /\ can_last' =>
                /\ Len(intersection') = n - 1
                /\ \A k \in 2..(n - 1) :
                       intersection'[k] =
                           [intersection[k] EXCEPT
                               !.angle = @ + Half(FULL - intersection[n].angle)]
            /\ (~can_last' /\ can_first') =>
                /\ Len(intersection') = n - 1
                /\ \A k \in 2..(n - 1) :
                       intersection'[k] =
                           [intersection[k + 1] EXCEPT
                               !.angle = @ - Half(intersection[2].angle)]
            /\ (~can_last' /\ ~can_first') => intersection' = intersection
        /\ (pc = "general" /\ pc' = "general") =>
            /\ index >= 2
            /\ index' >= 2
            /\ intersection'[1] = intersection[1]

\* C9: the back-bearing merge is decided and applied once, before any
\* general-pass merge: if CanMerge(0, last) holds, the last entry is merged
\* into entry 0 and entries 1..last-1 move by +(360 - angle[last])/2, even if
\* CanMerge(0, 1) holds too; the merge with entry 1, moving entries 2.. by
\* -angle[1]/2, is applied only if CanMerge(0, last) fails. The general pass
\* starts at index 2 and leaves entry 0 as it is.
C9_BackBearingPriority == [][BackBearingFirst]_vars

\* C9, witness: both back-bearing tests held, the last entry was merged, entry
\* 1 is still in its place, shifted, and the general pass is about to start.
C9_Witness ==
    /\ pc = "general"
    /\ index = 2
    /\ last_merge = None
    /\ can_last
    /\ can_first
    /\ Len(intersection) = Len(input) - 1
    /\ intersection[2].eid = input[2].eid
    /\ intersection[2].angle = input[2].angle + Half(FULL - input[Len(input)].angle)

\* C10: AdjustForJoiningRoads, given an intersection sorted ascending by angle
\* with all angles in [0,360), returns one of the same length, with entry 0
\* equal in every field, that is still sorted ascending by angle.
C10_AdjustKeepsStructure ==
    (/\ Normalized
     /\ IsSortedByAngle(pre_adjust)
     /\ \A k \in 1..Len(pre_adjust) : InHalfOpenRange(pre_adjust[k].angle)) =>
        /\ Len(intersection) = Len(pre_adjust)
        /\ Len(intersection) >= 1 => intersection[1] = pre_adjust[1]
        /\ IsSortedByAngle(intersection)

\* C10, witness: the pass has moved two adjacent candidates toward each other
\* and returned them in order.
C10_Witness ==
    /\ Normalized
    /\ IsSortedByAngle(pre_adjust)
    /\ \A k \in 1..Len(pre_adjust) : InHalfOpenRange(pre_adjust[k].angle)
    /\ \E k \in 2..(Len(intersection) - 1) :
        /\ intersection[k].angle > pre_adjust[k].angle
        /\ intersection[k + 1].angle < pre_adjust[k + 1].angle
        /\ intersection[k].angle <= intersection[k + 1].angle

\* the regions facade f has removed
RemovedBy(f) == {r.region : r \in {x \in removals : x.by = f}}

\* C11: the destructor removes a region only after its try_lock on the mutex
\* of its data region (regions_1_mutex for DATA_1, regions_2_mutex otherwise)
\* succeeded and the timestamp it read under the sharable current-regions lock
\* differs from its own; a destructor whose try_lock failed or that read its
\* own timestamp has removed nothing; a finished destructor has removed both
\* its regions or none; and nobody else held the mutex of a region when it
\* was removed.
C11_ReleaseOnDestruction ==
    /\ \A r \in removals :
        /\ locals[r.by].owns
        /\ locals[r.by].locked
        /\ locals[r.by].timestamp # -1
        /\ locals[r.by].timestamp # facades[r.by].shared_timestamp
        /\ r.others.exclusive = {}
        /\ r.others.sharable = {}
    /\ \A f \in DOMAIN fpc :
        /\ fpc[f] \in {"lock_current", "read", "remove_data", "remove_layout",
                       "unlock_current", "unlock"} =>
               f \in regions_mutex[IF facades[f].data_region = "DATA_1"
                                   THEN 1 ELSE 2].exclusive
        /\ fpc[f] = "done" =>
            /\ (~locals[f].owns \/ locals[f].timestamp = facades[f].shared_timestamp) =>
                   RemovedBy(f) = {}
            /\ \/ RemovedBy(f) = {}
               \/ RemovedBy(f) = {facades[f].data_region, facades[f].layout_region}

\* C11, witness: two destructors of facades on the same outdated data have
\* run interleaved: the try_lock of one failed and it removed nothing, the
\* other removed both regions; a third party holds the other regions mutex.
C11_Witness ==
    /\ Len(fpc) >= 2
    /\ \E f \in DOMAIN fpc : \E g \in DOMAIN fpc :
        /\ fpc[f] = "done"
        /\ fpc[g] = "done"
        /\ facades[f].data_region = facades[g].data_region
        /\ RemovedBy(f) = {facades[f].data_region, facades[f].layout_region}
        /\ ~locals[g].owns
        /\ RemovedBy(g) = {}
        /\ facades[g].shared_timestamp # current_timestamp
    /\ \E m \in {1, 2} : regions_mutex[m].sharable # {}

====
